---- MODULE Spec2Model ----
(***************************************************************************)
(* The inter-node relay fabric of the clustered broker (package cluster):  *)
(* the gRPC client pool (ClientManager), the relay and broadcast           *)
(* operations built on it, and the RPC server (RpcService) that lifts      *)
(* inbound calls onto the agent's message channel.                         *)
(***************************************************************************)
EXTENDS Integers, Sequences, FiniteSets, TLC

\* ------------------------------------------------------------------ bounds
NumTasks == 2    \* concurrent caller tasks of the ClientManager
MaxConns == 2    \* connections grpc.DialContext may create in one run
NumHandlers == 2 \* inbound RPCs the server runs at the same time
MaxCalls == 2    \* inbound RPCs accepted in one run
MaxChanCap == 1  \* largest capacity of agent.grpcMsgCh

\* --------------------------------------------------------------- constants
LocalName == "A"
Nodes == {"A", "B", "C"}
Tasks == 1..NumTasks
NoTask == 0

\* The address getGrpcAddr projects from a member record: node "C" may be
\* announced without a usable gRPC address.
AddrsOf(n) == IF n = "C" THEN {"", "C:17946"} ELSE {n \o ":17946"}

ErrNil == "nil"
ErrNodeNotFound == "node not found"
ErrDialFailed == "dialing failed"
ErrRpcFailed == "rpc error"

UnicastOps == {"RelayPublishPacket", "ConnectNotifyToNode", "RelayRaftApply", "RelayRaftJoin"}
BroadcastOps == {"ConnectNotifyToOthers", "RaftApplyToOthers", "RaftJoinToOthers"}

VARIABLES
    members,   \* agent.membership: sequence of member records [Name, Addr]
    cs,        \* ClientManager.cs: map nodeId -> connection id
    mu,        \* ClientManager's embedded sync.Mutex: the holding task, or NoTask
    nextConn,  \* number of connections dialed so far (ids 1..nextConn)
    closed,    \* connection ids on which conn.Close() was called
    fatal,     \* the Go runtime ended the process (concurrent map access)
    tasks,     \* per caller task: the operation it runs and its position
    got,       \* per node: clients getClient handed out since the last delete of the node
    dialedOk,  \* per node: successful dials since the last delete of the node
    removed    \* connection ids RemoveGrpcClient deleted from the map

poolVars == <<members, cs, mu, nextConn, closed, fatal, tasks, got, dialedOk, removed>>

VARIABLES
    rpcService, \* the *RpcService the agent holds: "nil" or "service"
    grpcServer, \* RpcService.grpcServer: "nil" or "set"
    listener,   \* the TCP listener of StartRpcServer: "none", "bound", "released"
    server,     \* the grpc.Server StartRpcServer creates: "none", "serving", "draining", "stopped"
    startErr,   \* what the last StartRpcServer returned: "none" (not called), "nil", "error"
    stopPc,     \* StopRpcServer: "idle" (not called), "waiting" (inside
                \* GracefulStop), "returned", "panicked"
    handlers,   \* per server task: the inbound RPC it runs
    ch,         \* agent.grpcMsgCh: the buffered messages
    chanCap,    \* capacity of agent.grpcMsgCh
    received,   \* the messages the router took from the channel, in order, each
                \* named by the inbound call that built it
    calls       \* inbound RPCs accepted so far

serverVars == <<rpcService, grpcServer, listener, server, startErr, stopPc, handlers, ch, chanCap, received, calls>>

vars == <<poolVars, serverVars>>

\* ------------------------------------------------------- membership helpers
MemberNames(ms) == [i \in 1..Len(ms) |-> ms[i].Name]

IsMember(n) == \E i \in 1..Len(members) : members[i].Name = n

\* agent.getNodeMember(nodeId): the member record, or the nil record
NilMember == [Name |-> "", Addr |-> ""]
getNodeMember(n) ==
    IF IsMember(n)
    THEN members[CHOOSE i \in 1..Len(members) : members[i].Name = n]
    ELSE NilMember

\* getGrpcAddr(m)
getGrpcAddr(m) == m.Addr

\* A getNodeAddr that answers from the node id without asking the membership.
getNodeAddrStale(n) == <<n \o ":17946", ErrNil>>

\* ClientManager.getNodeAddr: <<addr, err>>
getNodeAddr(n) ==
    LET m == getNodeMember(n)
    IN  IF m = NilMember THEN <<"", ErrNodeNotFound>> ELSE <<getGrpcAddr(m), ErrNil>>

\* ------------------------------------------------------------ wire and Message
Handlers == 1..NumHandlers
Methods == {"PublishPacket", "ConnectNotify", "RaftApply", "RaftJoin"}

\* The values of Message.Type the handlers set by name.
Publish == 3
Connect == 1
RaftJoin == 20

\* A conversion that keeps all 32 bits.
Uint8Keeps(x) == x

\* uint8(x)
Uint8(x) == x % 256

\* strconv.Itoa on the ports used here
Itoa(p) == CASE p = 8946 -> "8946" [] p = 0 -> "0" [] OTHER -> "?"

\* net.JoinHostPort: a host holding a colon is put in brackets
HasColon(host) == host = "::1"
JoinHostPort(host, port) ==
    IF HasColon(host) THEN "[" \o host \o "]:" \o port ELSE host \o ":" \o port

\* message.Message with the fields a handler leaves unset at their zero value
ZeroMessage == [Type |-> 0, NodeID |-> "", ClientID |-> "", ProtocolVersion |-> 0, Payload |-> ""]

\* A PublishPacket handler that copies the kind from the request.
PublishPacketMsgKindFromWire(req) ==
    [ZeroMessage EXCEPT !.Type = Uint8(req.ProtocolVersion), !.NodeID = req.NodeId,
                        !.ClientID = req.ClientId,
                        !.ProtocolVersion = Uint8(req.ProtocolVersion), !.Payload = req.Payload]

\* RpcService.PublishPacket
PublishPacketMsg(req) ==
    [ZeroMessage EXCEPT !.Type = Publish, !.NodeID = req.NodeId, !.ClientID = req.ClientId,
                        !.ProtocolVersion = Uint8(req.ProtocolVersion), !.Payload = req.Payload]

\* RpcService.ConnectNotify
ConnectNotifyMsg(req) ==
    [ZeroMessage EXCEPT !.Type = Connect, !.NodeID = req.NodeId, !.ClientID = req.ClientId]

\* RpcService.RaftApply
RaftApplyMsg(req) ==
    [ZeroMessage EXCEPT !.Type = Uint8(req.Action), !.NodeID = req.NodeId, !.Payload = req.Filter]

\* RpcService.RaftJoin
RaftJoinMsg(req) ==
    [ZeroMessage EXCEPT !.Type = RaftJoin, !.NodeID = req.NodeId,
                        !.Payload = JoinHostPort(req.Addr, Itoa(req.Port))]

\* The Message the handler of `method` builds from `req`.
HandlerMsg(method, req) ==
    CASE method = "PublishPacket" -> PublishPacketMsg(req)
      [] method = "ConnectNotify" -> ConnectNotifyMsg(req)
      [] method = "RaftApply" -> RaftApplyMsg(req)
      [] method = "RaftJoin" -> RaftJoinMsg(req)

\* uint32(x): x modulo 2^32, taken on the two 16-bit halves
Uint32(x) == (x % 65536) + 65536 * ((x \div 65536) % 65536)

\* agent.Config of the sending node
BindAddr == "127.0.0.1"
RaftPort == 8946

\* A RelayPublishPacket that leaves the protocol version out of the request.
PublishRequestNoVersion(msg) ==
    [NodeId |-> msg.NodeID, ClientId |-> msg.ClientID, ProtocolVersion |-> 0,
     Payload |-> msg.Payload]

\* RelayPublishPacket: req := crpc.PublishRequest{...}
PublishRequest(msg) ==
    [NodeId |-> msg.NodeID, ClientId |-> msg.ClientID,
     ProtocolVersion |-> Uint32(msg.ProtocolVersion), Payload |-> msg.Payload]

\* ConnectNotifyToNode: req := crpc.ConnectRequest{...}
ConnectRequest(clientId) == [NodeId |-> LocalName, ClientId |-> clientId]

\* RelayRaftApply: req := crpc.ApplyRequest{...}
ApplyRequest(msg) ==
    [Action |-> Uint32(msg.Type), NodeId |-> msg.NodeID, Filter |-> msg.Payload]

\* A join request that leaves the port out.
JoinRequestZeroPort == [NodeId |-> LocalName, Addr |-> BindAddr, Port |-> 0]

\* RelayRaftJoin: req := crpc.JoinRequest{...}
JoinRequest == [NodeId |-> LocalName, Addr |-> BindAddr, Port |-> Uint32(RaftPort)]

\* The RPC method a relay operation calls on the stub.
MethodOf(op) ==
    CASE op = "RelayPublishPacket" -> "PublishPacket"
      [] op = "ConnectNotifyToNode" -> "ConnectNotify"
      [] op = "RelayRaftApply" -> "RaftApply"
      [] op = "RelayRaftJoin" -> "RaftJoin"

\* The request relay operation `op` builds when it is handed Message `msg`
\* (ConnectNotifyToNode is handed the Message's ClientID by
\* ConnectNotifyToOthers; RelayRaftJoin is handed no Message).
RelayRequest(op, msg) ==
    CASE op = "RelayPublishPacket" -> PublishRequest(msg)
      [] op = "ConnectNotifyToNode" -> ConnectRequest(msg.ClientID)
      [] op = "RelayRaftApply" -> ApplyRequest(msg)
      [] op = "RelayRaftJoin" -> JoinRequest

\* The Messages the router hands to a relay operation: its own node's or one
\* that names another node as origin.
Messages(op) ==
    CASE op = "RelayPublishPacket" ->
            {[ZeroMessage EXCEPT !.Type = Publish, !.NodeID = n, !.ClientID = "c1",
                                 !.ProtocolVersion = 5, !.Payload = "p"] : n \in {"A", "B"}}
      [] op = "ConnectNotifyToNode" ->
            {[ZeroMessage EXCEPT !.Type = Connect, !.NodeID = n, !.ClientID = "c2",
                                 !.ProtocolVersion = 4] : n \in {"A", "B"}}
      [] op = "RelayRaftApply" ->
            {[ZeroMessage EXCEPT !.Type = a, !.NodeID = "A", !.Payload = "f"] : a \in {3, 8}}
      [] op = "RelayRaftJoin" -> {ZeroMessage}

\* The requests a peer sends, per method.
Requests(method) ==
    CASE method = "PublishPacket" ->
            [NodeId : {"B"}, ClientId : {"c1"}, ProtocolVersion : {5, 261}, Payload : {"p"}]
      [] method = "ConnectNotify" -> [NodeId : {"B"}, ClientId : {"c2"}]
      [] method = "RaftApply" -> [Action : {3, 8, 264}, NodeId : {"B"}, Filter : {"f"}]
      [] method = "RaftJoin" -> [NodeId : {"B"}, Addr : {"10.0.0.4"}, Port : {8946}]

NoRequest == [NodeId |-> ""]
NoResponse == [Ok |-> FALSE, err |-> "none"]
IdleHandler ==
    [pc |-> "idle", method |-> "", req |-> NoRequest, msg |-> ZeroMessage, call |-> 0,
     sends |-> 0, resp |-> NoResponse,
     op |-> "", sent |-> ZeroMessage, \* the relay operation and the Message it was handed
     node |-> "", from |-> 0]        \* the member the handler runs on, the calling task

\* --------------------------------------------------------------- task state
IdleTask ==
    [op |-> "idle", pc |-> "idle", node |-> "", cl |-> 0, err |-> ErrNil,
     dials |-> 0, rpcs |-> 0, logs |-> 0,
     snap |-> <<>>, idx |-> 0, att |-> <<>>,
     \* the stub call in progress: attempts started, time since the call's context
     \* was created (whole ReqTimeouts), the context's deadline, the last
     \* attempt's status code
     attempt |-> 0, elapsed |-> 0, ddl |-> 0, code |-> ""]

\* NewRpcService: no server yet; the agent's channel is empty.
InitServer ==
    /\ rpcService \in {"nil", "service"}
    /\ grpcServer = "nil"
    /\ listener = "none"
    /\ server = "none"
    /\ startErr = "none"
    /\ stopPc = "idle"
    /\ handlers = [h \in Handlers |-> IdleHandler]
    /\ ch = <<>>
    /\ chanCap \in 0..MaxChanCap
    /\ received = <<>>
    /\ calls = 0

\* NewClientManager: an empty map and a free mutex, no connection dialed yet.
InitPool(ms) ==
    /\ members = ms
    /\ cs = [n \in {} |-> 0]
    /\ mu = NoTask
    /\ nextConn = 0
    /\ closed = {}
    /\ fatal = FALSE
    /\ tasks = [t \in Tasks |-> IdleTask]
    /\ got = [n \in Nodes |-> {}]
    /\ dialedOk = [n \in Nodes |-> 0]
    /\ removed = {}

Member(n) == [Name |-> n, Addr |-> n \o ":17946"]

\* The node has announced itself and knows no peer yet.
InitWith(ms) == InitServer /\ rpcService = "service" /\ chanCap = MaxChanCap /\ InitPool(ms)

Init == InitWith(<<Member(LocalName)>>)

\* The cluster has formed: every node is a member with a gRPC address.
InitFormed == InitWith(<<Member("A"), Member("B"), Member("C")>>)

Set(t, rec) == tasks' = [tasks EXCEPT ![t] = rec]

\* ------------------------------------------------------ membership directory
\* The gossip layer adds a member record.
MemberJoin(n, a) ==
    /\ ~fatal
    /\ ~IsMember(n)
    /\ members' = Append(members, [Name |-> n, Addr |-> a])
    /\ UNCHANGED <<cs, mu, nextConn, closed, fatal, tasks, got, dialedOk, removed>>
    /\ UNCHANGED serverVars

\* The gossip layer drops a member record.
MemberLeave(n) ==
    /\ ~fatal
    /\ IsMember(n)
    /\ members' = SelectSeq(members, LAMBDA m : m.Name # n)
    /\ UNCHANGED <<cs, mu, nextConn, closed, fatal, tasks, got, dialedOk, removed>>
    /\ UNCHANGED serverVars

\* ------------------------------------------------------------- go map model
\* cs[nodeId] = client
MapInstall(m, n, c) == [k \in DOMAIN m \cup {n} |-> IF k = n THEN c ELSE m[k]]

\* A delete that leaves the entry in the map.
MapDeleteNothing(m, n) == m

\* delete(cs, nodeId)
MapDelete(m, n) == [k \in DOMAIN m \ {n} |-> m[k]]

\* The positions whose next step reads or writes the map c.cs.
MapReadPcs == {"lookup", "rmLookup"}
MapWritePcs == {"install", "rmDelete"}
AtMapAccess(t) == tasks[t].pc \in MapReadPcs \cup MapWritePcs

\* Two tasks are about to access the map with nothing ordering them and one of
\* them writes: a data race on a Go map.
Racy(t, u) ==
    /\ t # u
    /\ AtMapAccess(t)
    /\ AtMapAccess(u)
    /\ (tasks[t].pc \in MapWritePcs \/ tasks[u].pc \in MapWritePcs)

\* One outcome of a racing map access: the runtime detects it and ends the
\* process ("fatal error: concurrent map read and map write").  The other
\* outcomes are the two orders of the accesses, which the steps below produce.
RaceFatal(t, u) ==
    /\ ~fatal
    /\ Racy(t, u)
    /\ fatal' = TRUE
    /\ UNCHANGED <<members, cs, mu, nextConn, closed, tasks, got, dialedOk, removed>>
    /\ UNCHANGED serverVars

\* ------------------------------------------------------------------ getClient
\* A getClient that takes no lock.
CanLockNoMutex == TRUE

\* c.Lock() succeeds only on a free mutex
CanLock == mu = NoTask

\* Which relay a broadcast helper calls for each peer.
UnicastOf(op) ==
    CASE op = "ConnectNotifyToOthers" -> "ConnectNotifyToNode"
      [] op = "RaftApplyToOthers" -> "RelayRaftApply"
      [] op = "RaftJoinToOthers" -> "RelayRaftJoin"
      [] OTHER -> op

\* The relay operations that log when getClient fails (ConnectNotifyToNode
\* returns silently).
LogsGetClientError(op) == UnicastOf(op) # "ConnectNotifyToNode"

\* A broadcast helper that stops at the first failing peer.
FinishAbortOnError(rec, outcome) ==
    IF rec.op \in BroadcastOps
    THEN [rec EXCEPT !.pc = IF outcome = "ok" THEN "loop" ELSE "done", !.idx = @ + 1,
                     !.att = Append(@, [node |-> rec.node, outcome |-> outcome])]
    ELSE [rec EXCEPT !.pc = "done"]

\* The unicast relay returned with `outcome`: a plain relay call is done, a
\* broadcast helper goes on with the next entry of its snapshot.
Finish(rec, outcome) ==
    IF rec.op \in BroadcastOps
    THEN [rec EXCEPT !.pc = "loop", !.idx = @ + 1,
                     !.att = Append(@, [node |-> rec.node, outcome |-> outcome])]
    ELSE [rec EXCEPT !.pc = "done"]

\* A relay operation is called: its first statement is c.getClient(nodeId).
StartUnicast(t, op, n) ==
    /\ ~fatal
    /\ tasks[t].op = "idle"
    /\ Set(t, [IdleTask EXCEPT !.op = op, !.node = n, !.pc = "lock"])
    /\ UNCHANGED <<members, cs, mu, nextConn, closed, fatal, got, dialedOk, removed>>
    /\ UNCHANGED serverVars

\* c.Lock(); defer c.Unlock()
GetClientLock(t) ==
    /\ ~fatal
    /\ tasks[t].pc = "lock"
    /\ CanLock
    /\ mu' = t
    /\ Set(t, [tasks[t] EXCEPT !.pc = "lookup"])
    /\ UNCHANGED <<members, cs, nextConn, closed, fatal, got, dialedOk, removed>>
    /\ UNCHANGED serverVars

\* A check that forgets the empty address.
AddrUnusableErrOnly(addr, err) == err # ErrNil

\* addr == "" || err != nil
AddrUnusable(addr, err) == addr = "" \/ err # ErrNil

\* sc, ok := c.cs[nodeId]; a hit returns it, a miss resolves the address.
\* (The membership read commutes with every step of the other tasks on the
\* map, so it is taken in the same step as the lookup.)
GetClientLookup(t) ==
    LET rec == tasks[t]
        r == getNodeAddr(rec.node)
    IN  /\ ~fatal
        /\ rec.pc = "lookup"
        /\ IF rec.node \in DOMAIN cs
           THEN /\ Set(t, [rec EXCEPT !.pc = "unlock", !.cl = cs[rec.node], !.err = ErrNil])
                /\ got' = [got EXCEPT ![rec.node] = @ \cup {cs[rec.node]}]
           ELSE /\ IF AddrUnusable(r[1], r[2])
                   THEN Set(t, [rec EXCEPT !.pc = "unlock", !.cl = 0, !.err = ErrNodeNotFound])
                   ELSE Set(t, [rec EXCEPT !.pc = "dial"])
                /\ got' = got
        /\ UNCHANGED <<members, cs, mu, nextConn, closed, fatal, dialedOk, removed>>
        /\ UNCHANGED serverVars

\* A getClient that does not test the dial error.
DialErrIgnored(err) == FALSE

\* if err != nil { return nil, fmt.Errorf("dialing failed: %v", err) }
DialErrReturns(err) == err # ErrNil

\* conn, err := grpc.DialContext(ctx, addr, ...): a new connection, or an error
\* and a nil connection.
GetClientDial(t) ==
    LET rec == tasks[t]
    IN  /\ ~fatal
        /\ rec.pc = "dial"
        /\ \/ /\ nextConn < MaxConns
              /\ nextConn' = nextConn + 1
              /\ Set(t, [rec EXCEPT !.pc = "install", !.cl = nextConn + 1, !.dials = @ + 1])
           \/ /\ nextConn' = nextConn
              /\ Set(t, [rec EXCEPT !.pc = IF DialErrReturns(ErrDialFailed)
                                           THEN "unlock" ELSE "install",
                                    !.cl = 0, !.err = ErrDialFailed, !.dials = @ + 1])
        /\ UNCHANGED <<members, cs, mu, closed, fatal, got, dialedOk, removed>>
        /\ UNCHANGED serverVars

\* c.cs[nodeId] = wrapClient
GetClientInstall(t) ==
    LET rec == tasks[t]
    IN  /\ ~fatal
        /\ rec.pc = "install"
        /\ cs' = MapInstall(cs, rec.node, rec.cl)
        /\ got' = [got EXCEPT ![rec.node] = @ \cup {rec.cl}]
        /\ dialedOk' = [dialedOk EXCEPT ![rec.node] = @ + 1]
        /\ Set(t, [rec EXCEPT !.pc = "unlock"])
        /\ UNCHANGED <<members, mu, nextConn, closed, fatal, removed>>
        /\ UNCHANGED serverVars

\* A relay operation that goes on to the RPC without testing getClient's err.
GetClientReturnNoErrCheck(t) ==
    LET rec == tasks[t]
    IN  /\ ~fatal
        /\ rec.pc = "unlock"
        /\ mu' = NoTask
        /\ Set(t, [rec EXCEPT !.pc = "rpc"])
        /\ UNCHANGED <<members, cs, nextConn, closed, fatal, got, dialedOk, removed>>
        /\ UNCHANGED serverVars

\* getClient returns (the deferred c.Unlock() runs) and the relay operation
\* tests err: on an error it logs (all but ConnectNotifyToNode) and returns.
GetClientReturn(t) ==
    LET rec == tasks[t]
    IN  /\ ~fatal
        /\ rec.pc = "unlock"
        /\ mu' = NoTask
        /\ IF rec.err # ErrNil
           THEN Set(t, Finish([rec EXCEPT !.logs = IF LogsGetClientError(rec.op)
                                                   THEN @ + 1 ELSE @],
                              rec.err))
           ELSE Set(t, [rec EXCEPT !.pc = "rpc"])
        /\ UNCHANGED <<members, cs, nextConn, closed, fatal, got, dialedOk, removed>>
        /\ UNCHANGED serverVars

\* A relay that evicts the entry when its RPC fails.
PoolEvictAfterRpcError(m, n) == [k \in DOMAIN m \ {n} |-> m[k]]

\* What a relay operation does to the pool when its RPC fails: nothing.
PoolAfterRpcError(m, n) == m

\* ------------------------------------------------- the stub call, step by step
\* const ReqTimeout = 1 * time.Second: the unit of time
ReqTimeout == 1

\* grpc_retry.WithMax(3)
MaxAttempts == 3

\* context.WithTimeout(context.Background(), ...) of the relay operations
DeadlineOf(op) == IF UnicastOf(op) = "RelayRaftApply" THEN 10 * ReqTimeout ELSE ReqTimeout

\* grpc_retry.BackoffExponential(ReqTimeout): the wait before attempt k + 1
\* is ReqTimeout * 2^(k-1)
BackoffExponential(k) == ReqTimeout * 2 ^ (k - 1)

\* The status codes an attempt can end with.
Codes == {"OK", "Unavailable", "ResourceExhausted", "Internal"}

\* The codes the interceptor retries (no grpc_retry.WithCodes is given, so
\* its defaults).
Retriable(code) == code \in {"ResourceExhausted", "Unavailable"}

\* A backoff that does not watch the call's context.
BackoffIgnoresDeadline(elapsed, wait, ddl) == FALSE

\* The interceptor waits for the backoff timer or the call's context,
\* whichever is first.  An attempt has taken some time on top of `elapsed`, so
\* the context is first as soon as the whole units reach the deadline.
ExpiresInBackoff(elapsed, wait, ddl) == elapsed + wait >= ddl

\* ctx, cancel := context.WithTimeout(...); the stub is called and the
\* interceptor starts the first attempt at once.
RpcStart(t) ==
    LET rec == tasks[t]
    IN  /\ ~fatal
        /\ rec.pc = "rpc"
        /\ Set(t, [rec EXCEPT !.pc = "attempt", !.attempt = 1, !.elapsed = 0,
                              !.ddl = DeadlineOf(rec.op), !.code = ""])
        /\ UNCHANGED <<members, cs, mu, nextConn, closed, fatal, got, dialedOk, removed>>
        /\ UNCHANGED serverVars

\* An attempt ends after `d` more units with status `code`, or is cut by the
\* context's deadline (wait-for-ready keeps it queued until then).  OK, a
\* status that is not retried, the deadline and the last allowed attempt end
\* the call; otherwise the interceptor backs off.
RpcAttemptEnds(t, d, code) ==
    LET rec == tasks[t]
        end == rec.elapsed + d
    IN  /\ ~fatal
        /\ rec.pc = "attempt"
        /\ end <= rec.ddl
        /\ IF end = rec.ddl
           THEN Set(t, Finish([rec EXCEPT !.elapsed = end, !.code = "DeadlineExceeded",
                                          !.rpcs = 1, !.logs = @ + 1, !.err = ErrRpcFailed],
                              ErrRpcFailed))
           ELSE IF code = "OK"
                THEN Set(t, Finish([rec EXCEPT !.elapsed = end, !.code = code, !.rpcs = 1], "ok"))
                ELSE IF Retriable(code) /\ rec.attempt < MaxAttempts
                     THEN Set(t, [rec EXCEPT !.pc = "backoff", !.elapsed = end, !.code = code])
                     ELSE Set(t, Finish([rec EXCEPT !.elapsed = end, !.code = code, !.rpcs = 1,
                                                    !.logs = @ + 1, !.err = ErrRpcFailed],
                                        ErrRpcFailed))
        /\ UNCHANGED <<members, cs, mu, nextConn, closed, fatal, got, dialedOk, removed>>
        /\ UNCHANGED serverVars

\* The backoff ends: by its timer, and the next attempt starts under the same
\* context, or by the context's deadline, and the call ends.
RpcBackoffEnds(t) ==
    LET rec == tasks[t]
        wait == BackoffExponential(rec.attempt)
    IN  /\ ~fatal
        /\ rec.pc = "backoff"
        /\ IF ExpiresInBackoff(rec.elapsed, wait, rec.ddl)
           THEN Set(t, Finish([rec EXCEPT !.elapsed = rec.ddl, !.code = "DeadlineExceeded",
                                          !.rpcs = 1, !.logs = @ + 1, !.err = ErrRpcFailed],
                              ErrRpcFailed))
           ELSE Set(t, [rec EXCEPT !.pc = "attempt", !.attempt = @ + 1,
                                   !.elapsed = rec.elapsed + wait])
        /\ UNCHANGED <<members, cs, mu, nextConn, closed, fatal, got, dialedOk, removed>>
        /\ UNCHANGED serverVars

\* An RPC without a deadline to a peer that never answers.
RelayCallNoDeadline(t) ==
    /\ ~fatal
    /\ tasks[t].pc = "rpc"
    /\ FALSE
    /\ UNCHANGED vars

\* The relay operation builds the request and calls the stub under its
\* deadline; an error is logged, never returned.
RelayCall(t) ==
    LET rec == tasks[t]
    IN  /\ ~fatal
        /\ rec.pc = "rpc"
        /\ \/ /\ rec.cl \notin closed
              /\ Set(t, Finish([rec EXCEPT !.rpcs = @ + 1], "ok"))
              /\ cs' = cs
           \/ /\ Set(t, Finish([rec EXCEPT !.rpcs = @ + 1, !.logs = @ + 1,
                                            !.err = ErrRpcFailed],
                               ErrRpcFailed))
              /\ cs' = PoolAfterRpcError(cs, rec.node)
        /\ UNCHANGED <<members, mu, nextConn, closed, fatal, got, dialedOk, removed>>
        /\ UNCHANGED serverVars

\* The operation returned to its caller.
TaskReturn(t) ==
    /\ ~fatal
    /\ tasks[t].pc = "done"
    /\ Set(t, IdleTask)
    /\ UNCHANGED <<members, cs, mu, nextConn, closed, fatal, got, dialedOk, removed>>
    /\ UNCHANGED serverVars

\* ----------------------------------------------------------- RemoveGrpcClient
\* RemoveGrpcClient(nodeId) is called; it takes no lock.
StartRemove(t, n) ==
    /\ ~fatal
    /\ tasks[t].op = "idle"
    /\ Set(t, [IdleTask EXCEPT !.op = "RemoveGrpcClient", !.node = n, !.pc = "rmLookup"])
    /\ UNCHANGED <<members, cs, mu, nextConn, closed, fatal, got, dialedOk, removed>>
    /\ UNCHANGED serverVars

\* if client, ok := c.cs[nodeId]; ok {
RemoveLookup(t) ==
    LET rec == tasks[t]
    IN  /\ ~fatal
        /\ rec.pc = "rmLookup"
        /\ IF rec.node \in DOMAIN cs
           THEN Set(t, [rec EXCEPT !.pc = "rmDelete", !.cl = cs[rec.node]])
           ELSE Set(t, [rec EXCEPT !.pc = "done"])
        /\ UNCHANGED <<members, cs, mu, nextConn, closed, fatal, got, dialedOk, removed>>
        /\ UNCHANGED serverVars

\* delete(c.cs, nodeId)
RemoveDelete(t) ==
    LET rec == tasks[t]
    IN  /\ ~fatal
        /\ rec.pc = "rmDelete"
        /\ cs' = MapDelete(cs, rec.node)
        /\ removed' = removed \cup (IF rec.node \in DOMAIN cs THEN {cs[rec.node]} ELSE {})
        /\ got' = [got EXCEPT ![rec.node] = {}]
        /\ dialedOk' = [dialedOk EXCEPT ![rec.node] = 0]
        /\ Set(t, [rec EXCEPT !.pc = "rmClose"])
        /\ UNCHANGED <<members, mu, nextConn, closed, fatal>>
        /\ UNCHANGED serverVars

\* client.conn.Close()
RemoveClose(t) ==
    LET rec == tasks[t]
    IN  /\ ~fatal
        /\ rec.pc = "rmClose"
        /\ closed' = closed \cup {rec.cl}
        /\ Set(t, [rec EXCEPT !.pc = "done"])
        /\ UNCHANGED <<members, cs, mu, nextConn, fatal, got, dialedOk, removed>>
        /\ UNCHANGED serverVars

\* The caller calls RemoveGrpcClient(nodeId) a second time for the same node,
\* right after the first call returned; it keeps what the first call did and
\* the pool it left.
RemoveAgain(t) ==
    LET rec == tasks[t]
    IN  /\ ~fatal
        /\ rec.op = "RemoveGrpcClient"
        /\ rec.pc = "done"
        /\ rec.idx = 0
        /\ Set(t, [rec EXCEPT !.pc = "rmLookup", !.idx = 1, !.cl = 0,
                              !.att = <<[node |-> rec.node,
                                         outcome |-> IF rec.cl = 0 THEN "absent" ELSE "closed",
                                         cs |-> cs, closed |-> closed]>>])
        /\ UNCHANGED <<members, cs, mu, nextConn, closed, fatal, got, dialedOk, removed>>
        /\ UNCHANGED serverVars

\* ----------------------------------------------------------------- broadcasts
\* A loop without the self filter.
IsSelfNever(name) == FALSE

\* m.Name == c.agent.GetLocalName()
IsSelf(name) == name = LocalName

\* ms := c.agent.membership.Members(): the snapshot the loop ranges over
BroadcastStart(t, op) ==
    /\ ~fatal
    /\ tasks[t].op = "idle"
    /\ Set(t, [IdleTask EXCEPT !.op = op, !.pc = "loop", !.snap = MemberNames(members), !.idx = 1])
    /\ UNCHANGED <<members, cs, mu, nextConn, closed, fatal, got, dialedOk, removed>>
    /\ UNCHANGED serverVars

\* for _, m := range ms { if self { continue }; relay(m.Name, ...) }
BroadcastLoop(t) ==
    LET rec == tasks[t]
    IN  /\ ~fatal
        /\ rec.pc = "loop"
        /\ IF rec.idx > Len(rec.snap)
           THEN Set(t, [rec EXCEPT !.pc = "done"])
           ELSE IF IsSelf(rec.snap[rec.idx])
                THEN Set(t, [rec EXCEPT !.idx = @ + 1])
                ELSE Set(t, [rec EXCEPT !.pc = "lock", !.node = rec.snap[rec.idx],
                                        !.cl = 0, !.err = ErrNil])
        /\ UNCHANGED <<members, cs, mu, nextConn, closed, fatal, got, dialedOk, removed>>
        /\ UNCHANGED serverVars

\* ------------------------------------------------------------------ RpcService
\* The last server task left: a GracefulStop that waits for it goes on.
Drained(hs) == \A h \in Handlers : hs[h].pc = "idle"

\* A StartRpcServer that goes on to serve after net.Listen failed.
StartRpcServerServesOnError ==
    /\ rpcService = "service"
    /\ startErr = "none"
    /\ stopPc = "idle"
    /\ \/ /\ listener' = "bound"
          /\ server' = "serving"
          /\ startErr' = "nil"
       \/ /\ startErr' = "error"
          /\ server' = "serving"
          /\ UNCHANGED listener
    /\ UNCHANGED <<rpcService, grpcServer, stopPc, handlers, ch, chanCap, received, calls>>
    /\ UNCHANGED poolVars

\* StartRpcServer, called once by the agent when it starts (before any stop):
\* net.Listen fails (the error is returned) or succeeds; then the server is
\* created in a local variable, the service registered and Serve started in a
\* goroutine.  s.grpcServer is not assigned.
StartRpcServer ==
    /\ rpcService = "service"
    /\ startErr = "none"
    /\ stopPc = "idle"
    /\ \/ /\ listener' = "bound"
          /\ server' = "serving"
          /\ startErr' = "nil"
       \/ /\ startErr' = "error"
          /\ UNCHANGED <<listener, server>>
    /\ UNCHANGED <<rpcService, grpcServer, stopPc, handlers, ch, chanCap, received, calls>>
    /\ UNCHANGED poolVars

\* A guard that tests the receiver alone.
NothingToStopNilReceiverOnly == rpcService = "nil"

\* s == nil || s.grpcServer == nil
NothingToStop == rpcService = "nil" \/ grpcServer = "nil"

\* StopRpcServer: returns at once when there is nothing to stop, else
\* GracefulStop: no new RPC, wait for the RPCs in flight, close the listener.
\* (GracefulStop through a nil pointer is a nil dereference.)
StopRpcServer ==
    /\ stopPc \notin {"waiting", "panicked"}
    /\ IF NothingToStop
       THEN /\ stopPc' = "returned"
            /\ UNCHANGED <<listener, server>>
       ELSE IF grpcServer = "nil"
            THEN /\ stopPc' = "panicked"
                 /\ UNCHANGED <<listener, server>>
            ELSE IF Drained(handlers)
                 THEN /\ stopPc' = "returned"
                      /\ server' = "stopped"
                      /\ listener' = "released"
                 ELSE /\ stopPc' = "waiting"
                      /\ server' = "draining"
                      /\ UNCHANGED listener
    /\ UNCHANGED <<rpcService, grpcServer, startErr, handlers, ch, chanCap, received, calls>>
    /\ UNCHANGED poolVars

\* A peer's RPC is accepted and its handler starts on a task of its own: the
\* handler builds the Message.
HandlerInvoke(h, method, req) ==
    /\ server = "serving"
    /\ handlers[h].pc = "idle"
    /\ calls < MaxCalls
    /\ calls' = calls + 1
    /\ handlers' = [handlers EXCEPT ![h] =
          [IdleHandler EXCEPT !.pc = "send", !.method = method, !.req = req, !.call = calls + 1,
                              !.msg = HandlerMsg(method, req)]]
    /\ UNCHANGED <<rpcService, grpcServer, listener, server, startErr, stopPc, ch, chanCap, received>>
    /\ UNCHANGED poolVars

\* A channel that takes a message whether or not it has room.
CanSendAlways == TRUE

\* A relay operation of the sending node, handed `m`, builds its request and
\* calls the stub; the RPC is accepted here, on the receiving node's server, and
\* the handler builds the Message.
RelayArrive(h, op, m) ==
    LET method == MethodOf(op)
        req == RelayRequest(op, m)
    IN  /\ server = "serving"
        /\ handlers[h].pc = "idle"
        /\ calls < MaxCalls
        /\ calls' = calls + 1
        /\ handlers' = [handlers EXCEPT ![h] =
              [IdleHandler EXCEPT !.pc = "send", !.method = method, !.req = req,
                                  !.call = calls + 1, !.msg = HandlerMsg(method, req),
                                  !.op = op, !.sent = m]]
        /\ UNCHANGED <<rpcService, grpcServer, listener, server, startErr, stopPc, ch, chanCap, received>>
        /\ UNCHANGED poolVars

\* s.agent.grpcMsgCh <- &msg completes when the buffer has room
CanSend == Len(ch) < chanCap

\* A send that gives up on a full channel (select with a default case).
HandlerSendOrDrop(h) ==
    LET hr == handlers[h]
    IN  /\ hr.pc = "send"
        /\ ch' = IF CanSend THEN Append(ch, [call |-> hr.call, msg |-> hr.msg]) ELSE ch
        /\ handlers' = [handlers EXCEPT ![h] =
              [hr EXCEPT !.pc = "sent", !.sends = IF CanSend THEN @ + 1 ELSE @]]
        /\ UNCHANGED <<rpcService, grpcServer, listener, server, startErr, stopPc, chanCap, received, calls>>
        /\ UNCHANGED poolVars

\* s.agent.grpcMsgCh <- &msg, into the buffer
HandlerSend(h) ==
    LET hr == handlers[h]
    IN  /\ hr.pc = "send"
        /\ CanSend
        /\ ch' = Append(ch, [call |-> hr.call, msg |-> hr.msg])
        /\ handlers' = [handlers EXCEPT ![h] = [hr EXCEPT !.pc = "sent", !.sends = @ + 1]]
        /\ UNCHANGED <<rpcService, grpcServer, listener, server, startErr, stopPc, chanCap, received, calls>>
        /\ UNCHANGED poolVars

\* s.agent.grpcMsgCh <- &msg, handed to the router waiting on the empty channel
HandlerHandOff(h) ==
    LET hr == handlers[h]
    IN  /\ hr.pc = "send"
        /\ ch = <<>>
        /\ received' = Append(received, hr.call)
        /\ handlers' = [handlers EXCEPT ![h] = [hr EXCEPT !.pc = "sent", !.sends = @ + 1]]
        /\ UNCHANGED <<rpcService, grpcServer, listener, server, startErr, stopPc, ch, chanCap, calls>>
        /\ UNCHANGED poolVars

\* A handler that answers without Ok.
HandlerResponseNotOk == [Ok |-> FALSE, err |-> "nil"]

\* return &crpc.Response{Ok: true}, nil
HandlerResponse == [Ok |-> TRUE, err |-> "nil"]

HandlerReturn(h) ==
    LET hr == handlers[h]
    IN  /\ hr.pc = "sent"
        /\ handlers' = [handlers EXCEPT ![h] = [hr EXCEPT !.pc = "returned", !.resp = HandlerResponse]]
        /\ UNCHANGED <<rpcService, grpcServer, listener, server, startErr, stopPc, ch, chanCap, received, calls>>
        /\ UNCHANGED poolVars

\* The response is on the wire and the server task ends; a GracefulStop waiting
\* for it as the last one closes the listener and returns.
HandlerExit(h) ==
    LET hs == [handlers EXCEPT ![h] = IdleHandler]
    IN  /\ handlers[h].pc = "returned"
        /\ handlers' = hs
        /\ IF stopPc = "waiting" /\ Drained(hs)
           THEN /\ stopPc' = "returned"
                /\ server' = "stopped"
                /\ listener' = "released"
           ELSE UNCHANGED <<stopPc, server, listener>>
        /\ UNCHANGED <<rpcService, grpcServer, startErr, ch, chanCap, received, calls>>
        /\ UNCHANGED poolVars

\* The router takes the next message from the channel.
RouterReceive ==
    /\ ch # <<>>
    /\ received' = Append(received, Head(ch).call)
    /\ ch' = Tail(ch)
    /\ UNCHANGED <<rpcService, grpcServer, listener, server, startErr, stopPc, handlers, chanCap, calls>>
    /\ UNCHANGED poolVars

\* ------------------------------------------------------------- specifications
\* The peers a relay or a removal is addressed to.
Peers == Nodes \ {LocalName}

\* The task that issues relays where one caller is enough.
Caller == CHOOSE t \in Tasks : \A u \in Tasks : t <= u

PeerChurn ==
    \E n \in Peers : (\E a \in AddrsOf(n) : MemberJoin(n, a)) \/ MemberLeave(n)

Membership ==
    \E n \in Nodes : (\E a \in AddrsOf(n) : MemberJoin(n, a)) \/ MemberLeave(n)

PoolSteps ==
    \E t \in Tasks :
        \/ GetClientLock(t)
        \/ GetClientLookup(t)
        \/ GetClientDial(t)
        \/ GetClientInstall(t)
        \/ GetClientReturn(t)
        \/ RelayCall(t)
        \/ TaskReturn(t)
        \/ RemoveLookup(t)
        \/ RemoveDelete(t)
        \/ RemoveClose(t)
        \/ \E u \in Tasks : RaceFatal(t, u)

\* Every task calls getClient (through RelayPublishPacket; the four relays use
\* the pool alike) or RemoveGrpcClient, in a formed cluster.
Next ==
    \/ PoolSteps
    \/ \E t \in Tasks, n \in Peers :
          \/ StartUnicast(t, "RelayPublishPacket", n)
          \/ StartRemove(t, n)

Spec == InitFormed /\ [][Next]_vars

\* The task that removes clients where one remover is enough.
Remover == Caller + 1

\* One caller issues any of the four relays while another task removes clients
\* and peers join and leave.
NextRelay ==
    \/ PeerChurn
    \/ PoolSteps
    \/ \E n \in Peers, op \in UnicastOps : StartUnicast(Caller, op, n)
    \/ \E n \in Peers : StartRemove(Remover, n)

SpecRelay == Init /\ [][NextRelay]_vars

\* One caller issues the broadcast helpers while members join and leave.
NextBcast ==
    \/ Membership
    \/ \E op \in BroadcastOps : BroadcastStart(Caller, op)
    \/ BroadcastLoop(Caller)
    \/ GetClientLock(Caller)
    \/ GetClientLookup(Caller)
    \/ GetClientDial(Caller)
    \/ GetClientInstall(Caller)
    \/ GetClientReturn(Caller)
    \/ RelayCall(Caller)
    \/ TaskReturn(Caller)

SpecBcast == Init /\ [][NextBcast]_vars

\* One caller relays and removes, one call after the other, in a formed
\* cluster; a removal may be repeated at once.
NextRemove ==
    \/ \E n \in Peers :
          \/ StartUnicast(Caller, "RelayPublishPacket", n)
          \/ StartRemove(Caller, n)
    \/ GetClientLock(Caller)
    \/ GetClientLookup(Caller)
    \/ GetClientDial(Caller)
    \/ GetClientInstall(Caller)
    \/ GetClientReturn(Caller)
    \/ RelayCall(Caller)
    \/ TaskReturn(Caller)
    \/ RemoveLookup(Caller)
    \/ RemoveDelete(Caller)
    \/ RemoveClose(Caller)
    \/ RemoveAgain(Caller)

SpecRemove == InitFormed /\ [][NextRemove]_vars

\* One caller relays to peer B and removes B's client, one call after the
\* other, while B joins and leaves the membership.
NextChurn ==
    \/ \E a \in AddrsOf("B") : MemberJoin("B", a)
    \/ MemberLeave("B")
    \/ StartUnicast(Caller, "RelayPublishPacket", "B")
    \/ StartRemove(Caller, "B")
    \/ GetClientLock(Caller)
    \/ GetClientLookup(Caller)
    \/ GetClientDial(Caller)
    \/ GetClientInstall(Caller)
    \/ GetClientReturn(Caller)
    \/ RelayCall(Caller)
    \/ TaskReturn(Caller)
    \/ RemoveLookup(Caller)
    \/ RemoveDelete(Caller)
    \/ RemoveClose(Caller)

SpecChurn == Init /\ [][NextChurn]_vars

\* One caller relays to B under the short and the long deadline; the stub call
\* is followed attempt by attempt.
NextRetry ==
    \/ \E op \in {"RelayPublishPacket", "RelayRaftApply"} : StartUnicast(Caller, op, "B")
    \/ GetClientLock(Caller)
    \/ GetClientLookup(Caller)
    \/ GetClientDial(Caller)
    \/ GetClientInstall(Caller)
    \/ GetClientReturn(Caller)
    \/ RpcStart(Caller)
    \/ \E d \in 0..(10 * ReqTimeout), code \in Codes : RpcAttemptEnds(Caller, d, code)
    \/ RpcBackoffEnds(Caller)
    \/ TaskReturn(Caller)

SpecRetry == InitFormed /\ [][NextRetry]_vars

\* client.RaftJoin(ctx, &req) reaches the member it is addressed to: the RPC is
\* accepted by that member's server and its RaftJoin handler builds the
\* Message; the caller waits for the response.  (The members run the same
\* server code; the server variables stand for the member addressed.)
JoinCall(t, h) ==
    LET rec == tasks[t]
    IN  /\ ~fatal
        /\ rec.pc = "rpc"
        /\ UnicastOf(rec.op) = "RelayRaftJoin"
        /\ rec.cl \notin closed
        /\ server = "serving"
        /\ handlers[h].pc = "idle"
        /\ calls < MaxCalls
        /\ calls' = calls + 1
        /\ handlers' = [handlers EXCEPT ![h] =
              [IdleHandler EXCEPT !.pc = "send", !.method = "RaftJoin", !.req = JoinRequest,
                                  !.call = calls + 1, !.msg = HandlerMsg("RaftJoin", JoinRequest),
                                  !.op = "RelayRaftJoin", !.node = rec.node, !.from = t]]
        /\ Set(t, [rec EXCEPT !.pc = "await"])
        /\ UNCHANGED <<members, cs, mu, nextConn, closed, fatal, got, dialedOk, removed>>
        /\ UNCHANGED <<rpcService, grpcServer, listener, server, startErr, stopPc, ch, chanCap, received>>

\* The handler's response reaches the caller: err == nil, nothing is logged.
JoinReturns(t, h) ==
    LET rec == tasks[t]
    IN  /\ ~fatal
        /\ rec.pc = "await"
        /\ handlers[h].from = t
        /\ handlers[h].node = rec.node
        /\ handlers[h].pc = "returned"
        /\ handlers[h].resp.Ok
        /\ handlers' = [handlers EXCEPT ![h].from = NoTask]
        /\ Set(t, Finish([rec EXCEPT !.rpcs = @ + 1], "ok"))
        /\ UNCHANGED <<members, cs, mu, nextConn, closed, fatal, got, dialedOk, removed>>
        /\ UNCHANGED <<rpcService, grpcServer, listener, server, startErr, stopPc, ch, chanCap, received, calls>>

\* The RPC fails: it never reaches the member, or the caller's deadline
\* passes while the handler is still at its send.  OnJoinLog, no change to the
\* pool.
JoinFails(t) ==
    LET rec == tasks[t]
    IN  /\ ~fatal
        /\ rec.pc \in {"rpc", "await"}
        /\ UnicastOf(rec.op) = "RelayRaftJoin"
        /\ rec.pc = "await" =>
              \E h \in Handlers : handlers[h].from = t /\ handlers[h].pc = "send"
        /\ handlers' = [h \in Handlers |->
              IF handlers[h].from = t THEN [handlers[h] EXCEPT !.from = NoTask] ELSE handlers[h]]
        /\ Set(t, Finish([rec EXCEPT !.rpcs = @ + 1, !.logs = @ + 1, !.err = ErrRpcFailed],
                         ErrRpcFailed))
        /\ cs' = PoolAfterRpcError(cs, rec.node)
        /\ UNCHANGED <<members, mu, nextConn, closed, fatal, got, dialedOk, removed>>
        /\ UNCHANGED <<rpcService, grpcServer, listener, server, startErr, stopPc, ch, chanCap, received, calls>>

\* One caller issues RaftJoinToOthers in a cluster of A and B that C joins and
\* leaves; the calls are followed into the handlers of the members addressed.
NextJoin ==
    \/ \E a \in AddrsOf("C") : MemberJoin("C", a)
    \/ MemberLeave("C")
    \/ StartRpcServer
    \/ BroadcastStart(Caller, "RaftJoinToOthers")
    \/ BroadcastLoop(Caller)
    \/ GetClientLock(Caller)
    \/ GetClientLookup(Caller)
    \/ GetClientDial(Caller)
    \/ GetClientInstall(Caller)
    \/ GetClientReturn(Caller)
    \/ \E h \in Handlers :
          \/ JoinCall(Caller, h)
          \/ JoinReturns(Caller, h)
          \/ HandlerSend(h)
          \/ HandlerHandOff(h)
          \/ HandlerReturn(h)
    \/ JoinFails(Caller)
    \/ RouterReceive
    \/ TaskReturn(Caller)

SpecJoin == InitWith(<<Member("A"), Member("B")>>) /\ [][NextJoin]_vars

\* Every task relays, to a peer the membership knows and to one it does not;
\* nothing removes clients.
NextLive ==
    \E t \in Tasks :
        \/ \E n \in Peers, op \in {"RelayPublishPacket", "RelayRaftApply"} : StartUnicast(t, op, n)
        \/ GetClientLock(t)
        \/ GetClientLookup(t)
        \/ GetClientDial(t)
        \/ GetClientInstall(t)
        \/ GetClientReturn(t)
        \/ RelayCall(t)
        \/ TaskReturn(t)

\* A task that can take a step of its call takes it (the scheduler runs every
\* runnable goroutine; grpc.DialContext returns and the stub call ends by its
\* deadline at the latest), and a task waiting in c.Lock() gets the mutex if it
\* is released again and again (sync.Mutex hands over to starving waiters).
FairLive ==
    \A t \in Tasks :
        /\ SF_vars(GetClientLock(t))
        /\ WF_vars(GetClientLookup(t))
        /\ WF_vars(GetClientDial(t))
        /\ WF_vars(GetClientInstall(t))
        /\ WF_vars(GetClientReturn(t))
        /\ WF_vars(RelayCall(t))

SpecLive == InitWith(<<Member("A"), Member("B")>>) /\ [][NextLive]_vars /\ FairLive

\* The RPC server: start, stop, the inbound handlers and the router.
NextServer ==
    \/ StartRpcServer
    \/ StopRpcServer
    \/ \E h \in Handlers :
          \/ \E method \in Methods : \E req \in Requests(method) : HandlerInvoke(h, method, req)
          \/ HandlerSend(h)
          \/ HandlerHandOff(h)
          \/ HandlerReturn(h)
          \/ HandlerExit(h)
    \/ RouterReceive

\* A relay operation of one node against the server of another: the request
\* built from a Message, lifted back into a Message by the handler.
NextWire ==
    \/ StartRpcServer
    \/ \E h \in Handlers :
          \/ \E op \in UnicastOps : \E m \in Messages(op) : RelayArrive(h, op, m)
          \/ HandlerSend(h)
          \/ HandlerHandOff(h)
          \/ HandlerReturn(h)
          \/ HandlerExit(h)
    \/ RouterReceive

SpecWire == Init /\ [][NextWire]_vars

InitAnyCap == InitServer /\ InitPool(<<Member(LocalName)>>)

SpecServer == InitAnyCap /\ [][NextServer]_vars

\* The server with a router that keeps receiving.  The router's receive is
\* RouterReceive when the buffer holds a message and the hand-off from a
\* waiting sender when it is empty.  The runtime queues blocked senders in
\* order of arrival, so a handler whose send can complete again and again does
\* complete it; a handler that can return does.  (The four handlers send
\* alike; two of them are invoked here.)
NextDrain ==
    \/ StartRpcServer
    \/ \E h \in Handlers :
          \/ \E method \in {"ConnectNotify", "RaftJoin"} :
                \E req \in Requests(method) : HandlerInvoke(h, method, req)
          \/ HandlerSend(h)
          \/ HandlerHandOff(h)
          \/ HandlerReturn(h)
          \/ HandlerExit(h)
    \/ RouterReceive

FairDrain ==
    /\ WF_vars(RouterReceive)
    /\ \A h \in Handlers :
          /\ SF_vars(HandlerSend(h) \/ HandlerHandOff(h))
          /\ WF_vars(HandlerReturn(h))

SpecDrain == InitAnyCap /\ [][NextDrain]_vars /\ FairDrain

\* --------------------------------------------------------------------- claims
\* The tasks that hold the pool mutex inside getClient.
InGetClient(t) == tasks[t].pc \in {"lookup", "dial", "install", "unlock"}

\* The tasks between RemoveGrpcClient's lookup and the end of its Close.
InRemove(t) == tasks[t].pc \in {"rmDelete", "rmClose"}

\* C1: for every node, all getClient calls since the node's entry was last
\* deleted were handed one and the same client, at most one dial succeeded for
\* it, and no client handed out since then is one that was removed.
C1_SameClientUntilRemove ==
    \A n \in Nodes :
        /\ Cardinality(got[n]) <= 1
        /\ dialedOk[n] <= 1
        /\ got[n] \cap removed = {}

\* Two tasks hold the same client of a node whose earlier client was removed.
C1_Witness ==
    \E t \in Tasks, u \in Tasks :
        /\ t # u
        /\ tasks[t].pc = "rpc" /\ tasks[u].pc = "rpc"
        /\ tasks[t].node = tasks[u].node
        /\ tasks[t].cl = tasks[u].cl
        /\ tasks[t].dials + tasks[u].dials = 1
        /\ got[tasks[t].node] = {tasks[t].cl}
        /\ removed # {}
        /\ tasks[t].cl \notin removed

\* C2: no task is inside a getClient critical section or inside
\* RemoveGrpcClient's lookup-delete-close while another task is.
C2_MapAccessExclusive ==
    \A t \in Tasks, u \in Tasks :
        t # u => ~((InGetClient(t) \/ InRemove(t)) /\ (InGetClient(u) \/ InRemove(u)))

\* How often the message of inbound call `c` is in the channel or with the router.
Delivered(c) ==
    Cardinality({i \in 1..Len(ch) : ch[i].call = c})
        + Cardinality({i \in 1..Len(received) : received[i] = c})

\* C3: a handler that has sent or returned has put exactly one Message, its own,
\* on the channel; a handler that returned answers {Ok: true} with a nil error;
\* a handler that has not sent yet has put none; no handler holds an error.
C3_OneMessageThenOk ==
    \A h \in Handlers :
        LET hr == handlers[h]
        IN  /\ hr.pc \in {"sent", "returned"} =>
                /\ hr.sends = 1
                /\ Delivered(hr.call) = 1
                /\ \A i \in 1..Len(ch) : ch[i].call = hr.call => ch[i].msg = hr.msg
            /\ hr.pc = "returned" => hr.resp = [Ok |-> TRUE, err |-> "nil"]
            /\ hr.pc = "send" => hr.sends = 0 /\ Delivered(hr.call) = 0
            /\ hr.resp.err \in {"none", "nil"}

\* Two handlers have returned, each with its one Message delivered.
C3_Witness ==
    \E h \in Handlers, g \in Handlers :
        /\ h # g
        /\ handlers[h].pc = "returned" /\ handlers[g].pc = "returned"
        /\ handlers[h].method # handlers[g].method
        /\ handlers[h].sends = 1 /\ handlers[g].sends = 1

C5_StopStopsServing ==
    /\ (startErr = "nil" /\ stopPc = "returned") => (server = "stopped" /\ listener = "released")
    /\ (startErr = "nil" /\ stopPc \in {"waiting", "returned"}) => server # "serving"

\* The entries of a snapshot a broadcast helper has to visit, in order.
NonSelf(snap) == SelectSeq(snap, LAMBDA n : n # LocalName)

\* C6: in a broadcast the peers attempted so far are, in order and each once,
\* the first entries of the snapshot other than the local node; when the
\* helper returns they are all of them; a snapshot with no such entry means no
\* attempt, no dial and no RPC.
C6_BroadcastVisitsOthersOnce ==
    \A t \in Tasks :
        LET rec == tasks[t]
            todo == NonSelf(rec.snap)
        IN  rec.op \in BroadcastOps =>
               /\ Len(rec.att) <= Len(todo)
               /\ \A i \in 1..Len(rec.att) : rec.att[i].node = todo[i]
               /\ rec.pc \notin {"loop", "done"} =>
                      /\ Len(rec.att) < Len(todo)
                      /\ rec.node = todo[Len(rec.att) + 1]
               /\ rec.pc = "done" => Len(rec.att) = Len(todo)
               /\ todo = <<>> =>
                      /\ rec.pc \in {"loop", "done"}
                      /\ rec.att = <<>> /\ rec.dials = 0 /\ rec.rpcs = 0 /\ rec.logs = 0

\* A broadcast over a snapshot with the local node between two peers returned
\* after the membership had changed under it.
C6_Witness ==
    \E t \in Tasks :
        /\ tasks[t].op \in BroadcastOps
        /\ tasks[t].pc = "done"
        /\ Len(tasks[t].snap) = 3
        /\ tasks[t].snap[2] = LocalName
        /\ Len(tasks[t].att) = 2
        /\ tasks[t].snap # MemberNames(members)

\* C7: once an attempt of a broadcast has failed, the helper still goes through
\* the rest of the snapshot in order: it is never done with a peer left out.
C7_FailureDoesNotAbort ==
    \A t \in Tasks :
        LET rec == tasks[t]
            todo == NonSelf(rec.snap)
        IN  (rec.op \in BroadcastOps /\ \E i \in 1..Len(rec.att) : rec.att[i].outcome # "ok") =>
               /\ rec.pc = "done" =>
                      [i \in 1..Len(rec.att) |-> rec.att[i].node] = todo
               /\ (rec.pc = "loop" /\ Len(rec.att) < Len(todo)) => rec.idx <= Len(rec.snap)

\* A broadcast returned after its first peer failed and its second succeeded.
C7_Witness ==
    \E t \in Tasks :
        /\ tasks[t].op \in BroadcastOps
        /\ tasks[t].pc = "done"
        /\ Len(tasks[t].att) = 2
        /\ tasks[t].att[1].outcome # "ok"
        /\ tasks[t].att[2].outcome = "ok"

\* C8: a getClient whose dial failed returns the dial error and a nil client
\* with no entry installed for the node, and no entry of the map is a failed
\* (nil) connection, so the next getClient of the node misses and dials.
C8_FailedDialNotCached ==
    /\ \A t \in Tasks :
          (tasks[t].pc = "unlock" /\ tasks[t].err = ErrDialFailed) =>
              /\ tasks[t].node \notin DOMAIN cs
              /\ tasks[t].cl = 0
              /\ tasks[t].dials >= 1
    /\ \A n \in DOMAIN cs : cs[n] \in 1..nextConn

\* getClient is about to return a dial error.
C8_Witness ==
    \E t \in Tasks :
        /\ tasks[t].pc = "unlock"
        /\ tasks[t].err = ErrDialFailed
        /\ tasks[t].node \notin DOMAIN cs

\* The membership has no record of the node, or one with an empty address.
Unresolvable(n) == ~IsMember(n) \/ getGrpcAddr(getNodeMember(n)) = ""

\* C9: a getClient that misses the map for a node the membership does not
\* resolve returns the node-not-found error in that step, with no dial and the
\* map as it was; a getClient about to return that error has dialed nothing in
\* this call and holds a nil client.
C9_NodeNotFound ==
    /\ [][\A t \in Tasks :
            (tasks[t].pc = "lookup" /\ tasks'[t].pc # "lookup"
                /\ tasks[t].node \notin DOMAIN cs /\ Unresolvable(tasks[t].node))
            => /\ tasks'[t].pc = "unlock"
               /\ tasks'[t].err = ErrNodeNotFound
               /\ tasks'[t].dials = tasks[t].dials
               /\ cs' = cs
               /\ nextConn' = nextConn]_vars
    /\ [](\A t \in Tasks :
            (tasks[t].pc = "unlock" /\ tasks[t].err = ErrNodeNotFound) =>
                tasks[t].cl = 0 /\ tasks[t].dials = 0)

\* getClient is about to return node-not-found for a member without address.
C9_Witness ==
    \E t \in Tasks :
        /\ tasks[t].pc = "unlock"
        /\ tasks[t].err = ErrNodeNotFound
        /\ IsMember(tasks[t].node)
        /\ getGrpcAddr(getNodeMember(tasks[t].node)) = ""
        /\ tasks[t].node \notin DOMAIN cs

\* C10: the step in which a relay's RPC fails changes neither the map nor any
\* connection, and a lookup of a cached node returns the cached client without
\* a dial.
C10_RpcFailureKeepsEntry ==
    [][\A t \in Tasks :
          /\ (tasks[t].pc = "rpc" /\ tasks'[t].pc = "done" /\ tasks'[t].logs > tasks[t].logs)
             => (cs' = cs /\ closed' = closed /\ nextConn' = nextConn)
          /\ (tasks[t].pc = "lookup" /\ tasks'[t].pc # "lookup" /\ tasks[t].node \in DOMAIN cs)
             => (tasks'[t].cl = cs[tasks[t].node] /\ tasks'[t].pc = "unlock"
                 /\ tasks'[t].dials = tasks[t].dials /\ nextConn' = nextConn)]_vars

\* A relay that found its client cached failed at the RPC and the entry is
\* still that client, open.
C10_Witness ==
    \E t \in Tasks :
        /\ tasks[t].op \in UnicastOps
        /\ tasks[t].pc = "done"
        /\ tasks[t].rpcs = 1 /\ tasks[t].logs = 1 /\ tasks[t].dials = 0
        /\ tasks[t].node \in DOMAIN cs
        /\ cs[tasks[t].node] = tasks[t].cl
        /\ tasks[t].cl \notin closed

\* C11: a RemoveGrpcClient that finds no entry returns with the map and every
\* connection as they were; one that finds the entry deletes that entry alone
\* and then closes that entry's connection alone; a second call made right
\* after the first for the same node finds nothing, deletes nothing, closes
\* nothing and leaves the pool as the first call left it.
C11_RemoveIdempotent ==
    /\ [][\A t \in Tasks :
            LET rec == tasks[t]
                left == tasks'[t].pc # rec.pc
            IN  /\ (rec.pc = "rmLookup" /\ left /\ rec.node \notin DOMAIN cs)
                    => (tasks'[t].pc = "done" /\ cs' = cs /\ closed' = closed)
                /\ (rec.pc = "rmLookup" /\ left /\ rec.node \in DOMAIN cs)
                    => (tasks'[t].pc = "rmDelete" /\ tasks'[t].cl = cs[rec.node]
                        /\ cs' = cs /\ closed' = closed)
                /\ (rec.pc = "rmDelete" /\ left)
                    => (cs' = [k \in DOMAIN cs \ {rec.node} |-> cs[k]] /\ closed' = closed)
                /\ (rec.pc = "rmClose" /\ left)
                    => (closed' = closed \cup {rec.cl} /\ cs' = cs
                        /\ tasks'[t].pc = "done")]_vars
    /\ [](\A t \in Tasks :
            LET rec == tasks[t]
            IN  (rec.op = "RemoveGrpcClient" /\ rec.idx = 1) =>
                   /\ rec.pc \in {"rmLookup", "done"}
                   /\ rec.node \notin DOMAIN cs
                   /\ cs = rec.att[1].cs
                   /\ closed = rec.att[1].closed)

\* A second RemoveGrpcClient returned after the first had closed the node's
\* connection, with another node's entry still in the pool.
C11_Witness ==
    \E t \in Tasks :
        /\ tasks[t].op = "RemoveGrpcClient"
        /\ tasks[t].idx = 1
        /\ tasks[t].pc = "done"
        /\ tasks[t].att[1].outcome = "closed"
        /\ closed # {}
        /\ cs # <<>>

\* C12: StopRpcServer never dereferences a nil pointer; called on a nil
\* RpcService, or on one whose StartRpcServer was not called or failed, it
\* returns with no server, no listener and the service as they were; called
\* again after it returned, it changes nothing.
C12_StopIdempotentAndNilSafe ==
    /\ [](stopPc # "panicked")
    /\ []((stopPc = "returned" /\ startErr # "nil") =>
            (server = "none" /\ listener = "none" /\ grpcServer = "nil"))
    /\ [][(stopPc = "returned" /\ StopRpcServer) => UNCHANGED serverVars]_vars

\* StopRpcServer has returned on a service that was never started.
C12_Witness ==
    /\ rpcService = "service"
    /\ startErr = "none"
    /\ stopPc = "returned"

\* C13: a StartRpcServer whose listener could not be bound has returned the
\* error and left no listener, no server task and no handler able to run; a
\* server task, a listener or an inbound RPC exists only after a StartRpcServer
\* that returned nil.
C13_BindFailureStartsNothing ==
    /\ startErr = "error" =>
          /\ server = "none"
          /\ listener = "none"
          /\ calls = 0
          /\ \A h \in Handlers : handlers[h].pc = "idle"
    /\ (server # "none" \/ listener # "none" \/ calls > 0) => startErr = "nil"

\* StartRpcServer has returned the bind error, and a later StopRpcServer found
\* nothing to stop.
C13_Witness ==
    /\ startErr = "error"
    /\ server = "none"
    /\ stopPc = "returned"


\* How often the message of inbound call `c` has reached the router.
Received(c) == Cardinality({i \in 1..Len(received) : received[i] = c})

\* C14: the channel never holds more than its capacity; a handler leaves its
\* send only by putting its Message into a buffer that had room or by handing
\* it to the router, so with the channel full (or unbuffered) and the router
\* not receiving it stays where it is; the Message of every inbound call whose
\* handler is past its send is in the channel or with the router exactly once,
\* the router never has a Message twice, and once the channel is empty the
\* router has the Message of every such call.
C14_NoSilentDrop ==
    /\ [](Len(ch) <= chanCap)
    /\ [](\A c \in 1..calls :
            LET sending == \E h \in Handlers : handlers[h].call = c /\ handlers[h].pc = "send"
            IN  /\ Received(c) <= 1
                /\ Delivered(c) = (IF sending THEN 0 ELSE 1)
                /\ (ch = <<>> /\ ~sending) => Received(c) = 1)
    /\ [][\A h \in Handlers :
            (handlers[h].pc = "send" /\ handlers'[h].pc # "send") =>
                \/ /\ Len(ch) < chanCap
                   /\ ch' = Append(ch, [call |-> handlers[h].call, msg |-> handlers[h].msg])
                   /\ received' = received
                \/ /\ ch' = ch
                   /\ received' = Append(received, handlers[h].call)]_vars

\* A handler is blocked at its send on a full buffered channel whose Message
\* comes from a handler that has returned.
C14_Witness ==
    \E h \in Handlers, g \in Handlers :
        /\ handlers[h].pc = "send"
        /\ handlers[g].pc = "returned"
        /\ chanCap > 0
        /\ Len(ch) = chanCap
        /\ ch[1].call = handlers[g].call

\* C15 as stated: the Message a handler builds from the request of a relay
\* operation has the NodeID, ClientID, ProtocolVersion and Payload (Publish),
\* the NodeID and ClientID (Connect), the Type, NodeID and Payload (apply) of
\* the Message the relay operation was handed.
C15_RoundTripAnyMessage ==
    \A h \in Handlers :
        LET hr == handlers[h]
        IN  /\ hr.op = "RelayPublishPacket" =>
                /\ hr.msg.NodeID = hr.sent.NodeID
                /\ hr.msg.ClientID = hr.sent.ClientID
                /\ hr.msg.ProtocolVersion = hr.sent.ProtocolVersion
                /\ hr.msg.Payload = hr.sent.Payload
            /\ hr.op = "ConnectNotifyToNode" =>
                /\ hr.msg.NodeID = hr.sent.NodeID
                /\ hr.msg.ClientID = hr.sent.ClientID
            /\ hr.op = "RelayRaftApply" =>
                /\ hr.msg.Type = hr.sent.Type
                /\ hr.msg.NodeID = hr.sent.NodeID
                /\ hr.msg.Payload = hr.sent.Payload

\* C15 as amended: Publish and apply as stated; for Connect the ClientID is
\* that of the Message handed in and the NodeID is the sending node's local
\* name, which is the Message's NodeID exactly when the Message names the
\* sending node as its origin.
C15_RoundTripConnectFromSender ==
    \A h \in Handlers :
        LET hr == handlers[h]
        IN  /\ hr.op = "RelayPublishPacket" =>
                /\ hr.msg.NodeID = hr.sent.NodeID
                /\ hr.msg.ClientID = hr.sent.ClientID
                /\ hr.msg.ProtocolVersion = hr.sent.ProtocolVersion
                /\ hr.msg.Payload = hr.sent.Payload
            /\ hr.op = "ConnectNotifyToNode" =>
                /\ hr.msg.NodeID = LocalName
                /\ (hr.msg.NodeID = hr.sent.NodeID) = (hr.sent.NodeID = LocalName)
                /\ hr.msg.ClientID = hr.sent.ClientID
            /\ hr.op = "RelayRaftApply" =>
                /\ hr.msg.Type = hr.sent.Type
                /\ hr.msg.NodeID = hr.sent.NodeID
                /\ hr.msg.Payload = hr.sent.Payload

\* The handlers have returned for a Publish relayed with another node as
\* origin and for a Connect notification of a Message with another node as
\* origin.
C15_Witness ==
    \E h \in Handlers, g \in Handlers :
        /\ handlers[h].pc = "returned" /\ handlers[g].pc = "returned"
        /\ handlers[h].op = "RelayPublishPacket"
        /\ handlers[h].sent.NodeID # LocalName
        /\ handlers[h].msg.ProtocolVersion = 5
        /\ handlers[g].op = "ConnectNotifyToNode"
        /\ handlers[g].sent.NodeID # LocalName

\* C16: a relay operation that returns after a failure, of getClient or of the
\* RPC, has logged exactly one event, and one that returns after a success has
\* logged none.
C16_EveryFailureLogsOnce ==
    \A t \in Tasks :
        (tasks[t].op \in UnicastOps /\ tasks[t].pc = "done") =>
            tasks[t].logs = (IF tasks[t].err = ErrNil THEN 0 ELSE 1)

\* C17: a unicast relay operation calls the stub at most once, not at all when
\* getClient failed and exactly once before it returns otherwise; from
\* getClient's return it goes to the RPC on success and straight to its own
\* return on an error, from the RPC to its own return whether the RPC failed
\* or not, and it hands nothing back to its caller.
C17_AtMostOneRpcAndReturns ==
    /\ [](\A t \in Tasks :
            LET rec == tasks[t]
            IN  rec.op \in UnicastOps =>
                   /\ rec.rpcs <= 1
                   /\ rec.err \in {ErrNodeNotFound, ErrDialFailed} => rec.rpcs = 0
                   /\ (rec.pc = "done" /\ rec.err \in {ErrNil, ErrRpcFailed}) => rec.rpcs = 1)
    /\ [][\A t \in Tasks :
            LET rec == tasks[t]
                left == tasks'[t].pc # rec.pc
            IN  rec.op \in UnicastOps =>
                   /\ (rec.pc = "unlock" /\ left) =>
                          tasks'[t].pc = (IF rec.err = ErrNil THEN "rpc" ELSE "done")
                   /\ (rec.pc = "rpc" /\ left) =>
                          (tasks'[t].pc = "done" /\ tasks'[t].rpcs = rec.rpcs + 1)
                   /\ (rec.pc = "done" /\ left) => tasks'[t] = IdleTask]_vars

\* A relay operation is about to return after it dialed and its one RPC failed.
C17_Witness ==
    \E t \in Tasks :
        /\ tasks[t].op \in UnicastOps
        /\ tasks[t].pc = "done"
        /\ tasks[t].err = ErrRpcFailed
        /\ tasks[t].dials = 1
        /\ tasks[t].rpcs = 1

\* C18: every relay operation that has been called gets to its return.
C18_EveryRelayReturns ==
    \A t \in Tasks : (tasks[t].pc = "lock") ~> (tasks[t].pc = "done")

\* A relay waits for the mutex while another task dials under it.
C18_Witness ==
    \E t \in Tasks, u \in Tasks :
        /\ tasks[t].pc = "lock"
        /\ tasks[u].pc = "dial"
        /\ mu = u

\* The entries of the map that hold connection `c`.
EntriesOf(c) == {n \in DOMAIN cs : cs[n] = c}

\* C19: every connection getClient dialed and nobody closed is the connection
\* of exactly one entry of the map, but for the one a getClient is about to
\* install and the one a RemoveGrpcClient has deleted and is about to close.
C19_PoolOwnsEveryConnection ==
    \A c \in (1..nextConn) \ closed :
        /\ Cardinality(EntriesOf(c)) <= 1
        /\ EntriesOf(c) = {} =>
              \E t \in Tasks : tasks[t].cl = c /\ tasks[t].pc \in {"install", "rmClose"}

\* C20: shutdown begins by stopping the RPC server, so from the return of
\* StopRpcServer on a started server onwards (while the pool is torn down and
\* the channel closed) no peer RPC is accepted and no handler starts.
C20_ShutdownStopsAcceptingFirst ==
    [][(startErr = "nil" /\ stopPc = "returned") =>
          /\ calls' = calls
          /\ \A h \in Handlers : handlers[h].pc = "idle" => handlers'[h].pc = "idle"]_vars

\* C21: with the calls made one after the other, a RemoveGrpcClient that found
\* the node's entry has removed it and closed its connection; a relay that
\* misses the map goes to node-not-found while the membership has no record
\* of the node and to a dial while it has one; a relay that got node-not-found
\* has dialed nothing, called nothing and left no entry for the node; a relay
\* whose dial succeeded has a connection that was never removed or closed,
\* cached under the node, and issues its RPC on it.
C21_ChurnSequence ==
    /\ [](\A t \in Tasks :
            LET rec == tasks[t]
            IN  /\ (rec.op = "RemoveGrpcClient" /\ rec.pc = "done" /\ rec.cl # 0) =>
                      (rec.cl \in closed /\ rec.cl \in removed /\ rec.node \notin DOMAIN cs)
                /\ (rec.op = "RelayPublishPacket" /\ rec.err = ErrNodeNotFound) =>
                      (rec.dials = 0 /\ rec.rpcs = 0 /\ rec.cl = 0 /\ rec.node \notin DOMAIN cs)
                /\ (rec.op = "RelayPublishPacket" /\ rec.dials = 1
                        /\ rec.pc \in {"rpc", "done"}) =>
                      /\ rec.err # ErrDialFailed =>
                            /\ rec.node \in DOMAIN cs
                            /\ cs[rec.node] = rec.cl
                            /\ rec.cl \notin closed \cup removed
                            /\ rec.pc = "done" => rec.rpcs = 1
                      /\ rec.err = ErrDialFailed =>
                            (rec.rpcs = 0 /\ rec.node \notin DOMAIN cs))
    /\ [][\A t \in Tasks :
            LET rec == tasks[t]
            IN  (rec.pc = "lookup" /\ tasks'[t].pc # "lookup" /\ rec.node \notin DOMAIN cs) =>
                   /\ ~IsMember(rec.node) =>
                         (tasks'[t].pc = "unlock" /\ tasks'[t].err = ErrNodeNotFound)
                   /\ (IsMember(rec.node) /\ getGrpcAddr(getNodeMember(rec.node)) # "") =>
                         tasks'[t].pc = "dial"]_vars

\* B was cached, removed and closed, has left and come back, and a relay to B
\* has dialed a new connection, cached it and called the peer on it.
C21_Witness ==
    \E t \in Tasks :
        /\ tasks[t].op = "RelayPublishPacket"
        /\ tasks[t].pc = "done"
        /\ tasks[t].err = ErrNil
        /\ tasks[t].dials = 1
        /\ tasks[t].rpcs = 1
        /\ cs = [n \in {"B"} |-> tasks[t].cl]
        /\ removed # {}
        /\ closed = removed
        /\ tasks[t].cl \notin removed
        /\ Len(members) = 2
        /\ members[2].Name = "B"

\* C22: a stub call makes at most three attempts; a further attempt starts
\* only after an attempt that ended with a status the interceptor retries,
\* and only before the call's deadline; the deadline is the one set when the
\* call started for as long as the call lasts, and the call has ended when it
\* is reached.
C22_RetryWithinDeadline ==
    /\ [](\A t \in Tasks :
            LET rec == tasks[t]
            IN  /\ rec.attempt <= MaxAttempts
                /\ rec.elapsed <= rec.ddl
                /\ rec.pc \in {"attempt", "backoff"} =>
                      (rec.elapsed < rec.ddl /\ rec.ddl = DeadlineOf(rec.op))
                /\ rec.pc = "backoff" => Retriable(rec.code))
    /\ [][\A t \in Tasks :
            LET rec == tasks[t]
            IN  /\ (rec.pc \in {"attempt", "backoff"} /\ tasks'[t].pc # "idle") =>
                      tasks'[t].ddl = rec.ddl
                /\ tasks'[t].attempt > rec.attempt =>
                      \/ rec.pc = "rpc" /\ tasks'[t].attempt = 1
                      \/ /\ rec.pc = "backoff"
                         /\ Retriable(rec.code)
                         /\ tasks'[t].attempt = rec.attempt + 1
                         /\ tasks'[t].elapsed < rec.ddl]_vars

\* A RelayRaftApply has made its third attempt after two that ended
\* Unavailable.
C22_Witness ==
    \E t \in Tasks :
        /\ tasks[t].op = "RelayRaftApply"
        /\ tasks[t].pc = "attempt"
        /\ tasks[t].attempt = MaxAttempts
        /\ tasks[t].elapsed >= 3 * ReqTimeout
        /\ tasks[t].code = "Unavailable"

\* The Message a join of this node is to arrive as.
JoinMessage ==
    [Type |-> 20, NodeID |-> "A", ClientID |-> "", ProtocolVersion |-> 0,
     Payload |-> "127.0.0.1:8946"]

\* The calls whose Message is in the channel or with the router.
Enqueued == {ch[i].call : i \in 1..Len(ch)} \cup {received[i] : i \in 1..Len(received)}

\* C23: the request of RelayRaftJoin carries the local name, BindAddr and
\* RaftPort; the Message the RaftJoin handler builds from it, and every
\* Message in the channel, has kind RaftJoin, the sender's name as origin and
\* "host:port" of the sender as payload; RaftJoinToOthers calls every member
\* of its snapshot other than itself, in order, and every call that returned
\* without error has put that Message into the channel of the member called.
C23_JoinCarriesSenderEndpoint ==
    /\ \A h \in Handlers :
          handlers[h].op = "RelayRaftJoin" =>
             /\ handlers[h].req = [NodeId |-> LocalName, Addr |-> BindAddr, Port |-> RaftPort]
             /\ handlers[h].msg = JoinMessage
             /\ handlers[h].node # LocalName
    /\ \A i \in 1..Len(ch) : ch[i].msg = JoinMessage
    /\ \A t \in Tasks :
          LET rec == tasks[t]
              todo == NonSelf(rec.snap)
          IN  rec.op = "RaftJoinToOthers" =>
                 /\ Len(rec.att) <= Len(todo)
                 /\ \A i \in 1..Len(rec.att) :
                       /\ rec.att[i].node = todo[i]
                       /\ rec.att[i].outcome = "ok" =>
                             \E h \in Handlers :
                                 /\ handlers[h].node = todo[i]
                                 /\ handlers[h].msg = JoinMessage
                                 /\ handlers[h].sends = 1
                                 /\ handlers[h].call \in Enqueued
                 /\ rec.pc = "done" => Len(rec.att) = Len(todo)

\* RaftJoinToOthers has finished with B and C both called without error, and
\* the router of each has the Message.
C23_Witness ==
    \E t \in Tasks :
        /\ tasks[t].op = "RaftJoinToOthers"
        /\ tasks[t].pc = "done"
        /\ Len(tasks[t].att) = 2
        /\ \A i \in 1..2 : tasks[t].att[i].outcome = "ok"
        /\ {tasks[t].att[i].node : i \in 1..2} = {"B", "C"}
        /\ Len(received) = 2

\* C24: with a router that keeps receiving, every handler invocation that
\* has reached its send completes the send, once, and returns {Ok: true},
\* whatever the number of handlers at the send and whatever the capacity of
\* the channel, zero included.
C24_HandlersNeverStuck ==
    \A h \in Handlers :
        (handlers[h].pc = "send") ~>
            (handlers[h].pc = "returned" /\ handlers[h].resp.Ok /\ handlers[h].sends = 1)

\* On a channel without a buffer every handler has returned Ok and the router
\* holds every message.
C24_Witness ==
    /\ chanCap = 0
    /\ calls = NumHandlers
    /\ \A h \in Handlers : handlers[h].pc = "returned" /\ handlers[h].resp.Ok
    /\ Len(received) = NumHandlers

\* C25: no entry of the pool map refers to a closed connection, and no
\* connection is closed a second time, whatever the interleaving of getClient
\* and RemoveGrpcClient calls.
C25_NoClosedEntryNoDoubleClose ==
    /\ [](\A n \in DOMAIN cs : cs[n] \notin closed)
    /\ [][\A t \in Tasks :
            (tasks[t].pc = "rmClose" /\ tasks'[t].pc # "rmClose") =>
                tasks[t].cl \notin closed]_vars

\* The request field a handler narrows, per method (0 where it narrows none).
Narrowed(hr) ==
    CASE hr.method = "RaftApply" -> hr.req.Action
      [] hr.method = "PublishPacket" -> hr.req.ProtocolVersion
      [] OTHER -> 0

\* The Message field the narrowed value goes to.
NarrowedTo(hr) ==
    CASE hr.method = "RaftApply" -> hr.msg.Type
      [] hr.method = "PublishPacket" -> hr.msg.ProtocolVersion
      [] OTHER -> 0

\* The fields of a request the handler copies as they are.
CopiedFields(hr) ==
    CASE hr.method = "RaftApply" -> <<hr.req.NodeId, hr.req.Filter>>
      [] hr.method = "PublishPacket" -> <<hr.req.NodeId, hr.req.ClientId, hr.req.Payload>>
      [] OTHER -> <<>>

\* C26: the Message of a RaftApply has Type = Action modulo 256 and the
\* Message of a PublishPacket has ProtocolVersion = the request's modulo 256;
\* a value in 0..255 arrives unchanged; two requests of one method that
\* differ only by a multiple of 256 in that field yield the same Message.
C26_NarrowsToEightBits ==
    /\ \A h \in Handlers :
          LET hr == handlers[h]
          IN  hr.method \in {"RaftApply", "PublishPacket"} =>
                 /\ NarrowedTo(hr) \in 0..255
                 /\ (Narrowed(hr) - NarrowedTo(hr)) % 256 = 0
                 /\ Narrowed(hr) \in 0..255 => NarrowedTo(hr) = Narrowed(hr)
    /\ \A h \in Handlers, g \in Handlers :
          LET hr == handlers[h]
              gr == handlers[g]
          IN  (hr.method \in {"RaftApply", "PublishPacket"}
                  /\ gr.method = hr.method
                  /\ CopiedFields(gr) = CopiedFields(hr)
                  /\ (Narrowed(gr) - Narrowed(hr)) % 256 = 0)
              => gr.msg = hr.msg

\* Two RaftApply requests with Action 8 and 264 have been handled and their
\* Messages are the same, of Type 8.
C26_Witness ==
    \E h \in Handlers, g \in Handlers :
        /\ handlers[h].method = "RaftApply" /\ handlers[g].method = "RaftApply"
        /\ handlers[h].pc = "returned" /\ handlers[g].pc = "returned"
        /\ handlers[h].req.Action = 8 /\ handlers[g].req.Action = 264
        /\ handlers[h].msg = handlers[g].msg
        /\ handlers[g].msg.Type = 8

====
